---- MODULE Spec2Model ----
(***************************************************************************)
(* Asynchronous prediction pipeline of api/services/prediction_queue.py:   *)
(* the in-memory job table, the background task _process_prediction run by *)
(* a single asyncio event loop, and the pollers that read the table.       *)
(*                                                                         *)
(* Strings are modelled as sequences of text fragments, so that an         *)
(* f-string is a concatenation and "contains" is fragment membership.      *)
(* Python's None is "None" for text values and the empty sequence for the  *)
(* optional result dictionary (a present value v is <<v>>).                *)
(*                                                                         *)
(* _update_status is modelled write by write; the event loop runs one task *)
(* at a time, so other code runs only where a task awaits real I/O (the    *)
(* HTTP exchange of the research call: the OpenAI client is synchronous).  *)
(*                                                                         *)
(* Several specifications share the initial state, each over its own       *)
(* variables and leaving the others unchanged.  Spec is the pipeline (the  *)
(* created_at / updated_at timestamps are not part of it) and SpecCancel the *)
(* pipeline with task cancellation.  SpecTable is the job table with its   *)
(* timestamps under create, status update, get and list.  SpecTemplate is  *)
(* OpenAITemplateService.process_template and SpecResearch is              *)
(* AIService.get_market_research, statement by statement.  SpecService is  *)
(* AIService's stage operations called directly, SpecCompare one job next  *)
(* to full_prediction_analysis on the same outcomes, SpecNews is           *)
(* PolygonService.get_ticker_news and SpecLimiter the PolygonRateLimiter   *)
(* middleware.                                                             *)
(***************************************************************************)
EXTENDS Integers, Sequences, FiniteSets, TLC

\* ---------------------------------------------------------------- bounds
MaxJobs == 2
MaxTime == 2

Jobs == 1..MaxJobs

\* ------------------------------------------------- PredictionStatus enum
PENDING == "pending"
ANALYZING == "analyzing"
RESEARCHING == "researching"
FINDING_TICKERS == "finding_tickers"
CREATING_STRATEGY == "creating_strategy"
COMPLETED == "completed"
FAILED == "failed"

PredictionStatus ==
    {PENDING, ANALYZING, RESEARCHING, FINDING_TICKERS, CREATING_STRATEGY, COMPLETED, FAILED}

Terminal == {COMPLETED, FAILED}

\* ------------------------------------------------------------ data values
None == "None"
NoResult == << >>

\* Error texts str(e) that the Structured-Output Invoker can put in an envelope.
ErrTexts == {<<"E1">>, <<"E2">>}

\* Error texts of the Research Invoker's failure envelopes.
ResearchErrTexts == {<<"HTTP error: ">>}

\* Parsed outputs of the three structured templates and research contents.
AnalysisOutputs == {"A1"}
TickerOutputs == {"T1"}
StrategyOutputs == {"S1"}
ResearchContents == {"R1"}

\* options as received by create_prediction: a dict (valid) carrying
\* use_web_search, or a truthy JSON value that is not a dict.
OptionInputs ==
    {[valid |-> FALSE, use_web_search |-> FALSE]}
        \cup {[valid |-> TRUE, use_web_search |-> w] : w \in BOOLEAN}

NoOptions == [valid |-> TRUE, use_web_search |-> FALSE]

\* str(e) of the AttributeError raised by options.get on a non-dict.
AttributeErrorText == <<"object has no attribute 'get'">>

\* ------------------------------------------------------------- the state
NoTask == 0

VARIABLES
    predictions,   \* PredictionQueueManager._predictions: id -> record
    pc,            \* position of each job's _process_prediction task
    options,       \* the options argument of each job's task
    locals,        \* prediction_analysis, market_research, relevant_tickers
    upd,           \* the _update_status call in progress (<<>> when none)
    calls,         \* the external calls each job has made, in order
    current,       \* the task holding the event loop (NoTask when idle)
    response,      \* what the request handler returned, when the last step was one
    clock,         \* datetime.now() of the job table specification
    table,         \* _predictions with its timestamps, in insertion order
    listing,       \* what the last job table operation returned
    invocation,    \* the process_template call in progress
    research,      \* the get_market_research call in progress
    service,       \* a stage operation of AIService called directly
    news,          \* a get_ticker_news call
    limiter        \* the PolygonRateLimiter middleware and its clock

pipelineVars == <<predictions, pc, options, locals, upd, calls, current, response>>

tableVars == <<clock, table, listing>>

templateVars == <<invocation>>

researchVars == <<research>>

serviceVars == <<service>>

newsVars == <<news>>

limiterVars == <<limiter>>

otherVars == <<tableVars, templateVars, researchVars, serviceVars, newsVars, limiterVars>>

outsideTable == <<pipelineVars, templateVars, researchVars, serviceVars, newsVars, limiterVars>>

outsideTemplate == <<pipelineVars, tableVars, researchVars, serviceVars, newsVars, limiterVars>>

outsideResearch == <<pipelineVars, tableVars, templateVars, serviceVars, newsVars, limiterVars>>

outsideService == <<pipelineVars, tableVars, templateVars, researchVars, newsVars, limiterVars>>

outsideNews == <<pipelineVars, tableVars, templateVars, researchVars, serviceVars, limiterVars>>

outsideLimiter == <<pipelineVars, tableVars, templateVars, researchVars, serviceVars, newsVars>>

vars == <<pipelineVars, tableVars, templateVars, researchVars, serviceVars, newsVars, limiterVars>>

NoLocals ==
    [prediction_analysis |-> None, market_research |-> None, web_research |-> None,
     relevant_tickers |-> None, investment_strategy |-> None]

NoResponse == [kind |-> "none"]

\* ----------------------------------------------------------- text helpers
Contains(msg, text) ==
    \E i \in 1..(Len(msg) - Len(text) + 1) : SubSeq(msg, i, i + Len(text) - 1) = text


\* Variant: the record is created already marked as being analysed.
InitialRecordAnalyzing(prediction_id) ==
    [prediction_id |-> prediction_id,
     status |-> ANALYZING,
     message |-> <<"Analyzing prediction text">>,
     progress |-> 10,
     result |-> NoResult]

\* ------------------------------------------------------- create_prediction
InitialRecord(prediction_id) ==
    [prediction_id |-> prediction_id,
     status |-> PENDING,
     message |-> <<"Prediction queued for processing">>,
     progress |-> 0,
     result |-> NoResult]

\* uuid.uuid4(): an identifier not in use.
FreshId == CHOOSE id \in Jobs : id \notin DOMAIN predictions /\ \A k \in Jobs \ DOMAIN predictions : id <= k

\* Variant: the analysis call is made before the identifier is returned.
CreatePredictionAfterAnalysis(opts) ==
    /\ current = NoTask
    /\ DOMAIN predictions # Jobs
    /\ LET prediction_id == FreshId IN
        /\ predictions' = [id \in DOMAIN predictions \cup {prediction_id} |->
                              IF id = prediction_id THEN InitialRecord(prediction_id)
                              ELSE predictions[id]]
        /\ pc' = [pc EXCEPT ![prediction_id] = "scheduled"]
        /\ options' = [options EXCEPT ![prediction_id] = opts]
        /\ calls' = [calls EXCEPT ![prediction_id] =
                        <<[name |-> "prediction_analysis", ok |-> TRUE,
                           out |-> <<"A1">>, at |-> PENDING]>>]
        /\ response' = [kind |-> "created", prediction_id |-> prediction_id]
    /\ UNCHANGED <<locals, upd, current>>
    /\ UNCHANGED otherVars

CreatePrediction(opts) ==
    /\ current = NoTask
    /\ DOMAIN predictions # Jobs
    /\ LET prediction_id == FreshId IN
        /\ predictions' = [id \in DOMAIN predictions \cup {prediction_id} |->
                              IF id = prediction_id THEN InitialRecord(prediction_id)
                              ELSE predictions[id]]
        /\ pc' = [pc EXCEPT ![prediction_id] = "scheduled"]
        /\ options' = [options EXCEPT ![prediction_id] = opts]
        /\ response' = [kind |-> "created", prediction_id |-> prediction_id]
    /\ UNCHANGED <<locals, upd, calls, current>>
    /\ UNCHANGED otherVars

\* Variant: the handler runs on a worker thread, whatever the loop is doing.
GetPredictionStatusThreaded(prediction_id) ==
    /\ response' = IF prediction_id \in DOMAIN predictions
                   THEN [kind |-> "status", prediction_id |-> prediction_id,
                         record |-> predictions[prediction_id]]
                   ELSE [kind |-> "not_found", prediction_id |-> prediction_id]
    /\ UNCHANGED <<predictions, pc, options, locals, upd, calls, current>>
    /\ UNCHANGED otherVars

\* --------------------------------------------------- get_prediction_status
GetPredictionStatus(prediction_id) ==
    /\ current = NoTask
    /\ response' = IF prediction_id \in DOMAIN predictions
                   THEN [kind |-> "status", prediction_id |-> prediction_id,
                         record |-> predictions[prediction_id]]
                   ELSE [kind |-> "not_found", prediction_id |-> prediction_id]
    /\ UNCHANGED <<predictions, pc, options, locals, upd, calls, current>>
    /\ UNCHANGED otherVars

\* ----------------------------------------------------------- _update_status
UpdateArgs(status, message, progress, result) ==
    <<[status |-> status, message |-> message, progress |-> progress,
       result |-> result, next |-> 1]>>

\* The field assignments of _update_status, in program order.
WriteField(record, args, n) ==
    CASE n = 1 -> [record EXCEPT !.status = args.status]
      [] n = 2 -> [record EXCEPT !.message = args.message]
      [] n = 3 -> [record EXCEPT !.progress = args.progress]
      [] n = 4 -> IF args.result # NoResult
                  THEN [record EXCEPT !.result = args.result]
                  ELSE record

LastField == 4

\* Variant: the update is applied to every record of the table.
UpdateStatusWriteAll(j) ==
    /\ current = j
    /\ upd[j] # << >>
    /\ LET args == upd[j][1] IN
        /\ predictions' = [k \in DOMAIN predictions |->
                              WriteField(predictions[k], args, args.next)]
        /\ IF args.next < LastField
           THEN /\ upd' = [upd EXCEPT ![j] = <<[args EXCEPT !.next = @ + 1]>>]
                /\ UNCHANGED <<pc, current>>
           ELSE /\ upd' = [upd EXCEPT ![j] = << >>]
                /\ IF pc[j] = "done"
                   THEN /\ pc' = [pc EXCEPT ![j] = "finished"]
                        /\ current' = NoTask
                   ELSE UNCHANGED <<pc, current>>
    /\ response' = NoResponse
    /\ UNCHANGED <<options, locals, calls>>
    /\ UNCHANGED otherVars

UpdateStatusWrite(j) ==
    /\ current = j
    /\ upd[j] # << >>
    /\ LET args == upd[j][1] IN
        /\ predictions' = IF j \in DOMAIN predictions
                          THEN [predictions EXCEPT ![j] = WriteField(@, args, args.next)]
                          ELSE predictions
        /\ IF args.next < LastField
           THEN /\ upd' = [upd EXCEPT ![j] = <<[args EXCEPT !.next = @ + 1]>>]
                /\ UNCHANGED <<pc, current>>
           ELSE /\ upd' = [upd EXCEPT ![j] = << >>]
                /\ IF pc[j] = "done"
                   THEN /\ pc' = [pc EXCEPT ![j] = "finished"]
                        /\ current' = NoTask
                   ELSE UNCHANGED <<pc, current>>
    /\ response' = NoResponse
    /\ UNCHANGED <<options, locals, calls>>
    /\ UNCHANGED otherVars

\* Variant: the status arguments of the second and third stage are swapped.
StageUpdateSwapped(status) ==
    CASE status = ANALYZING -> UpdateArgs(ANALYZING, <<"Analyzing prediction text">>, 10, NoResult)
      [] status = RESEARCHING -> UpdateArgs(FINDING_TICKERS, <<"Gathering market research">>, 30, NoResult)
      [] status = FINDING_TICKERS -> UpdateArgs(RESEARCHING, <<"Finding relevant tickers">>, 50, NoResult)
      [] status = CREATING_STRATEGY -> UpdateArgs(CREATING_STRATEGY, <<"Creating investment strategy">>, 70, NoResult)

\* ----------------------------------------------------- _process_prediction
\* The literal arguments of the four stage updates.
StageUpdate(status) ==
    CASE status = ANALYZING -> UpdateArgs(ANALYZING, <<"Analyzing prediction text">>, 10, NoResult)
      [] status = RESEARCHING -> UpdateArgs(RESEARCHING, <<"Gathering market research">>, 30, NoResult)
      [] status = FINDING_TICKERS -> UpdateArgs(FINDING_TICKERS, <<"Finding relevant tickers">>, 50, NoResult)
      [] status = CREATING_STRATEGY -> UpdateArgs(CREATING_STRATEGY, <<"Creating investment strategy">>, 70, NoResult)


\* Variant: the handler reports a fixed message instead of str(e).
FailedUpdateNoText(e) ==
    UpdateArgs(FAILED, <<"Prediction processing failed">>, 100, NoResult)

\* Variant: the handler resets the progress.
FailedUpdateResetProgress(e) ==
    UpdateArgs(FAILED, <<"Prediction processing failed: ">> \o e, 0, NoResult)

\* except Exception as e: the FAILED update.
FailedUpdate(e) ==
    UpdateArgs(FAILED, <<"Prediction processing failed: ">> \o e, 100, NoResult)

\* Variant: the strategy slot of the result is filled with the tickers.
CompileResultTickersTwice(l) ==
    [success |-> TRUE,
     analysis |-> l.prediction_analysis,
     market_research |-> l.market_research,
     relevant_tickers |-> l.relevant_tickers,
     investment_strategy |-> l.relevant_tickers]

\* The result dictionary and the COMPLETED update.
CompileResult(l) ==
    [success |-> TRUE,
     analysis |-> l.prediction_analysis,
     market_research |-> l.market_research,
     relevant_tickers |-> l.relevant_tickers,
     investment_strategy |-> l.investment_strategy]


\* Variant: the result is not passed to _update_status.
CompletedUpdateNoResult(result) ==
    UpdateArgs(COMPLETED, <<"Prediction analysis completed">>, 100, NoResult)

CompletedUpdate(result) ==
    UpdateArgs(COMPLETED, <<"Prediction analysis completed">>, 100, <<result>>)


\* Variant: the failure is reported but the pipeline is not left.
RaiseAndContinue(e, cont) == [pc |-> cont, upd |-> FailedUpdate(e)]

\* An exception raised inside the try block at a point that would otherwise
\* continue at cont: control moves to the handler and the task ends after it.
Raise(e, cont) == [pc |-> "done", upd |-> FailedUpdate(e)]

\* Normal control flow: report the next stage and continue at cont.
Advance(status, cont) == [pc |-> cont, upd |-> StageUpdate(status)]

\* The task is at position at, between two statements, and holds the loop.
At(j, at) == current = j /\ pc[j] = at /\ upd[j] = << >>

Goto(j, to) ==
    /\ pc' = [pc EXCEPT ![j] = to.pc]
    /\ upd' = [upd EXCEPT ![j] = to.upd]

CurrentStatus(j) == predictions[j].status

LogCall(j, name, ok, out) ==
    calls' = [calls EXCEPT ![j] = Append(@, [name |-> name, ok |-> ok, out |-> out,
                                              at |-> CurrentStatus(j)])]

\* The event loop starts the task: options are read, ANALYZING is reported.
RunTask(j) ==
    /\ current = NoTask
    /\ pc[j] = "scheduled"
    /\ current' = j
    /\ IF options[j].valid
       THEN Goto(j, Advance(ANALYZING, "analyze"))
       ELSE Goto(j, Raise(AttributeErrorText, "analyze"))
    /\ response' = NoResponse
    /\ UNCHANGED <<predictions, options, locals, calls>>
    /\ UNCHANGED otherVars

\* OpenAITemplateService.process_template: the envelopes it can return.
TemplateEnvelopes(outputs) ==
    {[success |-> TRUE, result |-> o, error |-> <<>>] : o \in outputs}
        \cup {[success |-> FALSE, result |-> None, error |-> e] : e \in ErrTexts}


\* Variant: the invoker's error text is not copied into the envelope.
AnalyzeEnvelopeUnknownError(env) ==
    IF env.success
    THEN [success |-> TRUE, result |-> env.result, error |-> <<>>]
    ELSE [success |-> FALSE, result |-> None,
          error |-> <<"Failed to analyze prediction: ", "Unknown error">>]

\* AIService.analyze_prediction: wraps the invoker's envelope.
AnalyzeEnvelope(env) ==
    IF env.success
    THEN [success |-> TRUE, result |-> env.result, error |-> <<>>]
    ELSE [success |-> FALSE, result |-> None,
          error |-> <<"Failed to analyze prediction: ">> \o env.error]

\* Stage 1: the analysis call and the branch on use_web_search.
AnalyzePrediction(j) ==
    /\ At(j, "analyze")
    /\ \E env \in TemplateEnvelopes(AnalysisOutputs) :
        LET analysis_result == AnalyzeEnvelope(env) IN
        /\ LogCall(j, "prediction_analysis", env.success,
                   IF env.success THEN <<env.result>> ELSE env.error)
        /\ IF ~analysis_result.success
           THEN /\ Goto(j, Raise(<<"Analysis failed: ">> \o analysis_result.error,
                                 IF options[j].use_web_search THEN "research" ELSE "tickers"))
                /\ UNCHANGED locals
           ELSE /\ locals' = [locals EXCEPT ![j].prediction_analysis = analysis_result.result]
                /\ IF options[j].use_web_search
                   THEN Goto(j, Advance(RESEARCHING, "research"))
                   ELSE Goto(j, Advance(FINDING_TICKERS, "tickers"))
    /\ response' = NoResponse
    /\ UNCHANGED <<predictions, options, current>>
    /\ UNCHANGED otherVars

\* PerplexityService.search behind AIService.get_market_research: the
\* envelopes it can return. A missing credential raises before the request
\* is sent (suspends = FALSE); every other outcome follows the HTTP await.
ResearchEnvelopes ==
    {[success |-> FALSE, content |-> None, suspends |-> FALSE,
      error |-> <<"Unexpected error: ", "Perplexity API key not configured">>]}
        \cup {[success |-> FALSE, content |-> None, suspends |-> TRUE, error |-> e] :
                 e \in ResearchErrTexts}
        \cup {[success |-> TRUE, content |-> c, suspends |-> TRUE, error |-> <<>>] :
                 c \in ResearchContents}


\* Variant: a failed research call is fatal like the other stages' failures.
AfterResearchFatal(j, success, content, at) ==
    IF at = "research"
    THEN IF success
         THEN /\ locals' = [locals EXCEPT ![j].market_research = content]
              /\ Goto(j, Advance(FINDING_TICKERS, "tickers"))
         ELSE /\ UNCHANGED locals
              /\ Goto(j, Raise(<<"Market research failed">>, "tickers"))
    ELSE /\ locals' = [locals EXCEPT ![j].web_research = IF success THEN content ELSE @]
         /\ Goto(j, [pc |-> "ticker_finder", upd |-> << >>])

\* What follows the return of get_market_research: at "research" the
\* orchestrator keeps the content and reports FINDING_TICKERS; at "tickers"
\* find_relevant_tickers keeps it as web_research and goes on to the template.
AfterResearch(j, success, content, at) ==
    IF at = "research"
    THEN /\ locals' = [locals EXCEPT ![j].market_research = IF success THEN content ELSE @]
         /\ Goto(j, Advance(FINDING_TICKERS, "tickers"))
    ELSE /\ locals' = [locals EXCEPT ![j].web_research = IF success THEN content ELSE @]
         /\ Goto(j, [pc |-> "ticker_finder", upd |-> << >>])

\* Variant: find_relevant_tickers does its research whatever the option says.
CallMarketResearchAlways(j) ==
    /\ \/ At(j, "research")
       \/ At(j, "tickers")
    /\ \E env \in ResearchEnvelopes :
        /\ LogCall(j, "market_research", env.success,
                   IF env.success THEN <<env.content>> ELSE << >>)
        /\ IF env.suspends
           THEN /\ pc' = [pc EXCEPT ![j] = IF pc[j] = "research" THEN "await_research"
                                           ELSE "await_tickers_research"]
                /\ current' = NoTask
                /\ UNCHANGED <<locals, upd>>
           ELSE /\ AfterResearch(j, env.success, env.content, pc[j])
                /\ UNCHANGED current
    /\ response' = NoResponse
    /\ UNCHANGED <<predictions, options>>
    /\ UNCHANGED otherVars

\* The orchestrator (stage 2) or find_relevant_tickers (stage 3, when
\* use_web_search is set) calls get_market_research.
CallMarketResearch(j) ==
    /\ \/ At(j, "research")
       \/ At(j, "tickers") /\ options[j].use_web_search
    /\ \E env \in ResearchEnvelopes :
        /\ LogCall(j, "market_research", env.success,
                   IF env.success THEN <<env.content>> ELSE << >>)
        /\ IF env.suspends
           THEN /\ pc' = [pc EXCEPT ![j] = IF pc[j] = "research" THEN "await_research"
                                           ELSE "await_tickers_research"]
                /\ current' = NoTask
                /\ UNCHANGED <<locals, upd>>
           ELSE /\ AfterResearch(j, env.success, env.content, pc[j])
                /\ UNCHANGED current
    /\ response' = NoResponse
    /\ UNCHANGED <<predictions, options>>
    /\ UNCHANGED otherVars

\* The HTTP exchange of a suspended research call ends and the loop resumes
\* the task with the envelope.
ResearchReturns(j) ==
    /\ current = NoTask
    /\ pc[j] \in {"await_research", "await_tickers_research"}
    /\ current' = j
    /\ LET call == calls[j][Len(calls[j])] IN
        AfterResearch(j, call.ok, IF call.ok THEN call.out[1] ELSE None,
                      IF pc[j] = "await_research" THEN "research" ELSE "tickers")
    /\ response' = NoResponse
    /\ UNCHANGED <<predictions, options, calls>>
    /\ UNCHANGED otherVars

\* Stage 3: the ticker_finder template call of find_relevant_tickers.
FindRelevantTickers(j) ==
    /\ \/ At(j, "ticker_finder")
       \/ At(j, "tickers") /\ ~options[j].use_web_search
    /\ \E tickers_result \in TemplateEnvelopes(TickerOutputs) :
        /\ LogCall(j, "ticker_finder", tickers_result.success,
                   IF tickers_result.success THEN <<tickers_result.result>>
                   ELSE tickers_result.error)
        /\ IF ~tickers_result.success
           THEN /\ Goto(j, Raise(<<"Ticker search failed: ">> \o tickers_result.error, "strategy"))
                /\ UNCHANGED locals
           ELSE /\ locals' = [locals EXCEPT ![j].relevant_tickers = tickers_result.result]
                /\ Goto(j, Advance(CREATING_STRATEGY, "strategy"))
    /\ response' = NoResponse
    /\ UNCHANGED <<predictions, options, current>>
    /\ UNCHANGED otherVars

\* Stage 4: the investment_strategy template call.
CreateInvestmentStrategy(j) ==
    /\ At(j, "strategy")
    /\ \E strategy_result \in TemplateEnvelopes(StrategyOutputs) :
        /\ LogCall(j, "investment_strategy", strategy_result.success,
                   IF strategy_result.success THEN <<strategy_result.result>>
                   ELSE strategy_result.error)
        /\ IF ~strategy_result.success
           THEN /\ Goto(j, Raise(<<"Strategy creation failed: ">> \o strategy_result.error,
                                 "compile"))
                /\ UNCHANGED locals
           ELSE /\ locals' = [locals EXCEPT ![j].investment_strategy = strategy_result.result]
                /\ Goto(j, [pc |-> "compile", upd |-> << >>])
    /\ response' = NoResponse
    /\ UNCHANGED <<predictions, options, current>>
    /\ UNCHANGED otherVars

\* Step 5: the results are compiled and COMPLETED is reported.
CompileResults(j) ==
    /\ At(j, "compile")
    /\ Goto(j, [pc |-> "done", upd |-> CompletedUpdate(CompileResult(locals[j]))])
    /\ response' = NoResponse
    /\ UNCHANGED <<predictions, options, locals, calls, current>>
    /\ UNCHANGED otherVars

\* asyncio cancels the task (Task.cancel() at loop shutdown, or the loop
\* dropping a task nobody references): CancelledError is raised at the await
\* the task is suspended on; it is not an Exception, so the handler is skipped.
CancelTask(j) ==
    /\ current = NoTask
    /\ pc[j] \in {"scheduled", "await_research", "await_tickers_research"}
    /\ pc' = [pc EXCEPT ![j] = "cancelled"]
    /\ response' = NoResponse
    /\ UNCHANGED <<predictions, options, locals, upd, calls, current>>
    /\ UNCHANGED otherVars

\* Position of a status in the pipeline order.
Rank(status) ==
    CASE status = PENDING -> 0
      [] status = ANALYZING -> 1
      [] status = RESEARCHING -> 2
      [] status = FINDING_TICKERS -> 3
      [] status = CREATING_STRATEGY -> 4
      [] status = COMPLETED -> 5
      [] status = FAILED -> 5

\* ------------------------------------------- the job table with timestamps
\* The limit values the list route lets through: Query(10, ge=1, le=100).
Limits == 1..(MaxJobs + 1)

Min(a, b) == IF a <= b THEN a ELSE b

Max(a, b) == IF a >= b THEN a ELSE b

\* The record create_prediction inserts: both timestamps are the same now.
TableRecord(prediction_id, now) ==
    [prediction_id |-> prediction_id, status |-> PENDING,
     created_at |-> now, updated_at |-> now]

\* The positions of the records stored under a key.
Position(t, prediction_id) == {i \in DOMAIN t : t[i].prediction_id = prediction_id}

\* cls._predictions[prediction_id] = record: a new key is added at the end of
\* the dictionary, an existing key keeps its place and gets the new value.
DictSet(t, prediction_id, record) ==
    IF Position(t, prediction_id) = {}
    THEN Append(t, record)
    ELSE [i \in DOMAIN t |-> IF i \in Position(t, prediction_id) THEN record ELSE t[i]]

\* uuid.uuid4() of the job table: a key not in use.
TableFreshId == Len(table) + 1

TableCreate ==
    /\ Len(table) < MaxJobs
    /\ LET prediction_id == TableFreshId
           now == clock
       IN  /\ table' = DictSet(table, prediction_id, TableRecord(prediction_id, now))
           /\ listing' = [kind |-> "created", prediction_id |-> prediction_id]
    /\ UNCHANGED <<clock, outsideTable>>


\* Variant: the update also stamps the creation time.
UpdateRecordRestamped(record, status, now) ==
    [record EXCEPT !.status = status, !.created_at = now, !.updated_at = now]

\* The writes of _update_status that the table specification follows.
UpdateRecord(record, status, now) ==
    [record EXCEPT !.status = status, !.updated_at = now]

\* The statuses the table specification lets a task report: the first stage
\* and the two terminal ones.
StatusInputs == {ANALYZING, COMPLETED, FAILED}

\* A whole _update_status call of a job's task; the statuses a task reports
\* move forward in the pipeline order or to FAILED.
TableUpdateStatus(prediction_id, status) ==
    /\ Position(table, prediction_id) # {}
    /\ LET i == CHOOSE i \in Position(table, prediction_id) : TRUE IN
        /\ table[i].status \notin Terminal
        /\ status = FAILED \/ Rank(status) > Rank(table[i].status)
        /\ table' = [table EXCEPT ![i] = UpdateRecord(@, status, clock)]
    /\ listing' = NoResponse
    /\ UNCHANGED <<clock, outsideTable>>

\* _predictions.get(prediction_id)
TableGet(prediction_id) ==
    /\ listing' = IF Position(table, prediction_id) # {}
                  THEN [kind |-> "status", prediction_id |-> prediction_id,
                        record |-> table[CHOOSE i \in Position(table, prediction_id) : TRUE]]
                  ELSE [kind |-> "not_found", prediction_id |-> prediction_id]
    /\ UNCHANGED <<clock, table, outsideTable>>


\* Variant: the listing is ordered by the time of the last update.
SortKeyUpdatedAt(x) == x.updated_at

\* key=lambda x: x.created_at
SortKey(x) == x.created_at

\* Where sorted(..., reverse=True) puts one more element: behind the elements
\* with a greater key and, the sort being stable, before those with an equal
\* key that came after it in the input.
RECURSIVE Insert(_, _)
Insert(x, sorted) ==
    IF sorted = << >> THEN <<x>>
    ELSE IF SortKey(sorted[1]) > SortKey(x)
         THEN <<sorted[1]>> \o Insert(x, Tail(sorted))
         ELSE <<x>> \o sorted

RECURSIVE Sorted(_)
Sorted(values) ==
    IF values = << >> THEN << >> ELSE Insert(Head(values), Sorted(Tail(values)))

\* The slice [:limit] of a Python list.
Slice(list, limit) ==
    IF limit >= 0
    THEN SubSeq(list, 1, Min(limit, Len(list)))
    ELSE SubSeq(list, 1, Max(Len(list) + limit, 0))

ListPredictions(limit) == Slice(Sorted(table), limit)

TableList(limit) ==
    /\ listing' = [kind |-> "list", limit |-> limit, records |-> ListPredictions(limit)]
    /\ UNCHANGED <<clock, table, outsideTable>>

\* Time passes between two operations.
TableTick ==
    /\ clock < MaxTime
    /\ clock' = clock + 1
    /\ listing' = NoResponse
    /\ UNCHANGED <<table, outsideTable>>

\* ------------------------------------------------------- process_template
\* The TEMPLATES registry: whether a response model is set, the required
\* variables, the optional variables (each has a default) and the
\* placeholders of the user prompt template.
TEMPLATES ==
    [prediction_analysis |->
        [model |-> TRUE,
         required_vars |-> {"prediction_text"},
         optional_vars |-> {"industry_list"},
         placeholders |-> {"prediction_text", "industry_list"}],
     ticker_finder |->
        [model |-> TRUE,
         required_vars |-> {"prediction_text", "prediction_analysis"},
         optional_vars |-> {"web_research", "industry_list"},
         placeholders |-> {"prediction_text", "prediction_analysis", "web_research",
                           "industry_list"}],
     investment_strategy |->
        [model |-> TRUE,
         required_vars |-> {"prediction_text", "prediction_analysis", "relevant_tickers"},
         optional_vars |-> {"market_research", "stock_data"},
         placeholders |-> {"prediction_text", "prediction_analysis", "relevant_tickers",
                           "market_research", "stock_data"}],
     market_research |->
        [model |-> FALSE,
         required_vars |-> {"prediction_text"},
         optional_vars |-> {"industries", "timeframe"},
         placeholders |-> {"prediction_text", "industries", "timeframe"}],
     finviz_filter_selection |->
        [model |-> TRUE,
         required_vars |-> {"prediction_text", "prediction_analysis", "filter_info"},
         optional_vars |-> {},
         placeholders |-> {"prediction_text", "prediction_analysis", "filter_info"}],
     finviz_filter_values |->
        [model |-> TRUE,
         required_vars |-> {"prediction_text", "prediction_analysis", "filter_options"},
         optional_vars |-> {},
         placeholders |-> {"prediction_text", "prediction_analysis", "filter_options"}]]

\* The template names a caller may pass: the registered ones and one that is
\* not registered.
TemplateNameInputs == DOMAIN TEMPLATES \cup {"no_such_template"}

\* The variable names a caller may pass with a template name: the template's
\* own (any of them may be left out) and one the template does not know.
VariableNameInputs(template_name) ==
    IF template_name \in DOMAIN TEMPLATES
    THEN TEMPLATES[template_name].required_vars
            \cup TEMPLATES[template_name].optional_vars \cup {"extra"}
    ELSE {"prediction_text"}

\* A variables dict with the given keys, each holding the caller's value.
Supplied(names) == [v \in names |-> "supplied"]

\* The parsed object of a completion, as a dict.
ParsedOutputs == {"O1"}

\* What the provider does with a request: it answers with an object of the
\* response model, it answers without one (a refusal, or a template that has
\* no response model), or the client raises (API, transport, time-out).
ProviderOutcomes(template) ==
    (IF template.model THEN {"parsed"} ELSE {}) \cup {"no_parsed", "raises"}

\* The classes that except Exception catches, of those raised here.
ExceptionClasses == {"ValueError", "ConfigurationException", "APIError", "AttributeError"}

NoInvocation ==
    [pc |-> "idle", template_name |-> None, given |-> {}, variables |-> << >>,
     has_key |-> FALSE, requests |-> 0, completion |-> None, prompt |-> << >>,
     returned |-> [kind |-> "none"]]

\* A caller invokes process_template; OPENAI_API_KEY is set or not.
ProcessTemplate(template_name, names, has_key) ==
    /\ invocation.pc \in {"idle", "returned"}
    /\ invocation' = [pc |-> "get_template", template_name |-> template_name,
                      given |-> names, variables |-> Supplied(names),
                      has_key |-> has_key, requests |-> 0, completion |-> None,
                      prompt |-> << >>, returned |-> [kind |-> "none"]]
    /\ UNCHANGED outsideTemplate


\* Variant: the handler catches ValueError only.
CaughtValueErrorOnly(e) ==
    IF e.class = "ValueError"
    THEN [kind |-> "envelope", success |-> FALSE, error |-> e.text, result |-> None]
    ELSE [kind |-> "raised", class |-> e.class]

\* except Exception as e: the error envelope, with str(e) as the error.
Caught(e) ==
    IF e.class \in ExceptionClasses
    THEN [kind |-> "envelope", success |-> FALSE, error |-> e.text, result |-> None]
    ELSE [kind |-> "raised", class |-> e.class]

\* A statement of the try block raises e: the call ends in the handler.
Raises(e) == invocation' = [invocation EXCEPT !.pc = "returned", !.returned = Caught(e)]

\* get_template
GetTemplate ==
    /\ invocation.pc = "get_template"
    /\ IF invocation.template_name \notin DOMAIN TEMPLATES
       THEN Raises([class |-> "ValueError",
                    text |-> <<"Template '", invocation.template_name, "' not found">>])
       ELSE invocation' = [invocation EXCEPT !.pc = "validate_variables"]
    /\ UNCHANGED outsideTemplate

\* Variant: every optional variable is set to its default.
FillDefaultsOverwriting(template, variables) ==
    [v \in DOMAIN variables \cup template.optional_vars |->
        IF v \in template.optional_vars THEN "default" ELSE variables[v]]

\* for var, default_value in optional_vars.items(): if var not in variables:
\* variables[var] = default_value
FillDefaults(template, variables) ==
    [v \in DOMAIN variables \cup template.optional_vars |->
        IF v \in DOMAIN variables THEN variables[v] ELSE "default"]

\* validate_variables: the defaults are written into the caller's dict.
ValidateVariables ==
    /\ invocation.pc = "validate_variables"
    /\ LET template == TEMPLATES[invocation.template_name]
           variables == invocation.variables
           missing_vars == template.required_vars \ DOMAIN variables
       IN  IF missing_vars # {}
           THEN Raises([class |-> "ValueError",
                        text |-> <<"Missing required variables: ">>])
           ELSE invocation' =
                    [invocation EXCEPT
                        !.pc = "format_prompt",
                        !.variables = FillDefaults(template, variables)]
    /\ UNCHANGED outsideTemplate

\* user_prompt_template.format(**variables): the skeleton with each
\* placeholder replaced by the value of the variable of that name.
RenderedPrompt(template, variables) == [p \in template.placeholders |-> variables[p]]

\* format_prompt: str.format raises KeyError for a placeholder without value.
FormatPrompt ==
    /\ invocation.pc = "format_prompt"
    /\ LET template == TEMPLATES[invocation.template_name] IN
        IF ~(template.placeholders \subseteq DOMAIN invocation.variables)
        THEN Raises([class |-> "ValueError",
                     text |-> <<"Error formatting prompt template: ">>])
        ELSE invocation' = [invocation EXCEPT
                               !.pc = "get_client",
                               !.prompt = RenderedPrompt(template, invocation.variables)]
    /\ UNCHANGED outsideTemplate


\* Variant: the client is built whether or not a key is configured.
GetClientUnchecked ==
    /\ invocation.pc = "get_client"
    /\ invocation' = [invocation EXCEPT !.pc = "request"]
    /\ UNCHANGED outsideTemplate

\* _get_client
GetClient ==
    /\ invocation.pc = "get_client"
    /\ IF ~invocation.has_key
       THEN Raises([class |-> "ConfigurationException",
                    text |-> <<"500: ", "OpenAI API key not configured">>])
       ELSE invocation' = [invocation EXCEPT !.pc = "request"]
    /\ UNCHANGED outsideTemplate

\* client.beta.chat.completions.parse(...): the one request of the call.
SendRequest ==
    /\ invocation.pc = "request"
    /\ \E outcome \in ProviderOutcomes(TEMPLATES[invocation.template_name]) :
        LET sent == [invocation EXCEPT !.requests = @ + 1] IN
        CASE outcome = "raises" ->
                invocation' = [sent EXCEPT !.pc = "returned",
                                           !.returned = Caught([class |-> "APIError",
                                                                text |-> <<"Connection error.">>])]
          [] outcome = "no_parsed" ->
                invocation' = [sent EXCEPT !.pc = "parse", !.completion = None]
          [] outcome = "parsed" ->
                \E parsed \in ParsedOutputs :
                    invocation' = [sent EXCEPT !.pc = "parse", !.completion = parsed]
    /\ UNCHANGED outsideTemplate

\* parsed_response.dict() and the success envelope; None has no dict().
BuildResponse ==
    /\ invocation.pc = "parse"
    /\ IF invocation.completion = None
       THEN Raises([class |-> "AttributeError",
                    text |-> <<"'NoneType' object has no attribute 'dict'">>])
       ELSE invocation' = [invocation EXCEPT
                              !.pc = "returned",
                              !.returned = [kind |-> "envelope", success |-> TRUE,
                                            error |-> None,
                                            result |-> invocation.completion]]
    /\ UNCHANGED outsideTemplate

\* -------------------------------------------------- the Research Invoker
\* What the caller of get_market_research passes: industries and a timeframe
\* taken from an analysis, each possibly empty.
IndustryInputs == {<< >>, <<"Technology">>}

TimeframeInputs == {"", "short_term"}

\* What the HTTP exchange of PerplexityService.search can end in: a 2xx
\* response whose body holds a content, holds none, or is not the JSON object
\* expected; a 4xx/5xx status; or no response (connection error, time-out).
Replies ==
    {[kind |-> "ok", content |-> c] : c \in ResearchContents \cup {""}}
        \cup {[kind |-> "malformed", text |-> t] :
                 t \in {"Expecting value: line 1 column 1 (char 0)", "list index out of range"}}
        \cup {[kind |-> "status", text |-> t] : t \in {"401", "429", "500"}}
        \cup {[kind |-> "transport", text |-> t] : t \in {"timed out", "All connection attempts failed"}}

NoReply == [kind |-> "none"]

NoResearch ==
    [pc |-> "idle", industries |-> << >>, timeframe |-> "", has_key |-> FALSE,
     query |-> << >>, requests |-> 0, reply |-> NoReply,
     search_returned |-> [kind |-> "none"], returned |-> [kind |-> "none"]]

\* get_market_research up to the call of search_market_info: the query is the
\* market_research skeleton filled with the text, the industries and the
\* timeframe, with fixed words where one is empty.
GetMarketResearch(industries, timeframe, has_key) ==
    /\ research.pc \in {"idle", "returned"}
    /\ research' =
          [NoResearch EXCEPT
              !.pc = "search_market_info",
              !.industries = industries,
              !.timeframe = timeframe,
              !.has_key = has_key,
              !.query = <<"prediction_text",
                          IF industries # << >> THEN industries[1] ELSE "relevant industries",
                          IF timeframe # "" THEN "Timeframe: " ELSE "",
                          timeframe>>]
    /\ UNCHANGED outsideResearch

\* search_market_info wraps the query and calls search.
SearchMarketInfo ==
    /\ research.pc = "search_market_info"
    /\ research' = [research EXCEPT
                       !.pc = "get_api_key",
                       !.query = <<"Provide detailed market research information about:">> \o @]
    /\ UNCHANGED outsideResearch


\* Variant: the key is read inside the try block of search.
GetApiKeyInsideTry ==
    /\ research.pc = "get_api_key"
    /\ research' =
          IF ~research.has_key
          THEN [research EXCEPT
                   !.pc = "search_done",
                   !.search_returned =
                       [kind |-> "envelope", success |-> FALSE,
                        error |-> <<"Unexpected error: ", "500: ",
                                    "Perplexity API key not configured">>]]
          ELSE [research EXCEPT !.pc = "post"]
    /\ UNCHANGED outsideResearch

\* api_key = cls._get_api_key(), the first statement of search, before its
\* try block: without a key ConfigurationException leaves search.
GetApiKey ==
    /\ research.pc = "get_api_key"
    /\ research' =
          IF ~research.has_key
          THEN [research EXCEPT
                   !.pc = "search_done",
                   !.search_returned =
                       [kind |-> "raised", class |-> "ConfigurationException",
                        text |-> <<"500: ", "Perplexity API key not configured">>]]
          ELSE [research EXCEPT !.pc = "post"]
    /\ UNCHANGED outsideResearch

\* await client.post(...): the one request of search.
Post ==
    /\ research.pc = "post"
    /\ \E reply \in Replies :
          research' = [research EXCEPT !.pc = "reply", !.requests = @ + 1, !.reply = reply]
    /\ UNCHANGED outsideResearch

\* raise_for_status, response.json(), the success envelope, and the three
\* except clauses of search.
SearchEnvelope(reply) ==
    CASE reply.kind = "ok" ->
            [kind |-> "envelope", success |-> TRUE, content |-> reply.content]
      [] reply.kind = "status" ->
            [kind |-> "envelope", success |-> FALSE, error |-> <<"HTTP error: ", reply.text>>]
      [] reply.kind = "transport" ->
            [kind |-> "envelope", success |-> FALSE, error |-> <<"Request error: ", reply.text>>]
      [] reply.kind = "malformed" ->
            [kind |-> "envelope", success |-> FALSE,
             error |-> <<"Unexpected error: ", reply.text>>]

HandleReply ==
    /\ research.pc = "reply"
    /\ research' = [research EXCEPT
                       !.pc = "search_done",
                       !.search_returned = SearchEnvelope(research.reply)]
    /\ UNCHANGED outsideResearch

\* get_market_research returns what search returned; its except Exception
\* turns what search raised into an envelope.
ReturnMarketResearch ==
    /\ research.pc = "search_done"
    /\ research' =
          [research EXCEPT
              !.pc = "returned",
              !.returned =
                  IF research.search_returned.kind = "raised"
                  THEN [kind |-> "envelope", success |-> FALSE, content |-> None,
                        error |-> <<"Unexpected error: ">> \o research.search_returned.text]
                  ELSE research.search_returned]
    /\ UNCHANGED outsideResearch

\* --------------------------------------- AIService's synchronous operations
\* find_relevant_tickers, create_investment_strategy and
\* full_prediction_analysis called directly, outside a job. The invoker
\* envelopes are inputs of the steps; every call is logged with the names of
\* the template variables it was given.
FIND_RELEVANT_TICKERS == "find_relevant_tickers"
CREATE_INVESTMENT_STRATEGY == "create_investment_strategy"
FULL_PREDICTION_ANALYSIS == "full_prediction_analysis"

\* extract_tickers_from_result: the symbols named by a ticker_finder result.
TickersOf(relevant_tickers) ==
    IF relevant_tickers = None THEN << >> ELSE <<"AAPL", "MSFT">>

\* What the market-data provider does for one request.
MarketDataOutcomes == {"ok", "empty", "raises"}

NoService ==
    [op |-> "none", pc |-> "idle", given |-> {},
     prediction_analysis |-> None, relevant_tickers |-> None,
     market_research |-> None, web_research |-> None,
     use_web_search |-> FALSE, include_stock_data |-> FALSE,
     include_year_data |-> FALSE, include_week_data |-> FALSE,
     stock_data |-> << >>, provider_calls |-> << >>,
     calls |-> << >>, returned |-> << >>]

\* The envelope a stage operation returns on failure.
StageFailure(error) == [success |-> FALSE, error |-> error, result |-> None]

\* Variant: a failure return of full_prediction_analysis drops what the
\* earlier stages produced.
PartialOutputAllNull(s, error) ==
    [success |-> FALSE, error |-> error, analysis |-> None,
     market_research |-> None, relevant_tickers |-> None,
     investment_strategy |-> None]

\* The failure returns of full_prediction_analysis: the outputs held so far,
\* None for the rest.
PartialOutput(s, error) ==
    [success |-> FALSE, error |-> error, analysis |-> s.prediction_analysis,
     market_research |-> s.market_research, relevant_tickers |-> s.relevant_tickers,
     investment_strategy |-> None]

\* The success return of full_prediction_analysis.
FullOutput(s, investment_strategy) ==
    [success |-> TRUE, analysis |-> s.prediction_analysis,
     market_research |-> s.market_research, relevant_tickers |-> s.relevant_tickers,
     investment_strategy |-> investment_strategy]

ServiceReturn(s, envelope) == [s EXCEPT !.pc = "returned", !.returned = <<envelope>>]

ServiceLog(s, name, ok, out, variables) ==
    [s EXCEPT !.calls = Append(@, [name |-> name, ok |-> ok, out |-> out,
                                    variables |-> variables])]

\* create_investment_strategy once it holds the tickers: enrichment when it
\* is requested and there are symbols, else the template.
AfterTickers(s) ==
    IF s.include_stock_data /\ s.relevant_tickers # None /\ TickersOf(s.relevant_tickers) # << >>
    THEN "stock_data"
    ELSE "strategy"

\* Variant: full_prediction_analysis goes from the analysis straight to
\* find_relevant_tickers.
AfterAnalysisSkippingResearch(s) ==
    CASE s.op = FULL_PREDICTION_ANALYSIS ->
            IF s.use_web_search THEN "tickers_research" ELSE "ticker_finder"
      [] s.op = FIND_RELEVANT_TICKERS ->
            IF s.use_web_search THEN "tickers_research" ELSE "ticker_finder"
      [] s.op = CREATE_INVESTMENT_STRATEGY ->
            IF s.relevant_tickers = None THEN "ticker_finder" ELSE AfterTickers(s)

\* Where an operation goes once it holds an analysis.
AfterAnalysis(s) ==
    CASE s.op = FULL_PREDICTION_ANALYSIS ->
            IF s.use_web_search THEN "research" ELSE "ticker_finder"
      [] s.op = FIND_RELEVANT_TICKERS ->
            IF s.use_web_search THEN "tickers_research" ELSE "ticker_finder"
      [] s.op = CREATE_INVESTMENT_STRATEGY ->
            IF s.relevant_tickers = None THEN "ticker_finder" ELSE AfterTickers(s)

\* Variant: the stage operations analyse the prediction whatever they are given.
ServiceEntryAlwaysAnalysing(s) == "analysis"

\* Where an operation starts: "if not local_prediction_analysis".
ServiceEntry(s) ==
    IF s.prediction_analysis = None THEN "analysis" ELSE AfterAnalysis(s)

InvokeFindRelevantTickers(prediction_analysis, use_web_search) ==
    /\ service.pc = "idle"
    /\ LET s == [NoService EXCEPT !.op = FIND_RELEVANT_TICKERS,
                    !.given = IF prediction_analysis = None THEN {}
                              ELSE {"prediction_analysis"},
                    !.prediction_analysis = prediction_analysis,
                    !.use_web_search = use_web_search]
       IN service' = [s EXCEPT !.pc = ServiceEntry(s)]
    /\ UNCHANGED outsideService

InvokeCreateInvestmentStrategy(prediction_analysis, relevant_tickers, market_research, include_stock_data, include_year_data, include_week_data) ==
    /\ service.pc = "idle"
    /\ LET s == [NoService EXCEPT !.op = CREATE_INVESTMENT_STRATEGY,
                    !.given = (IF prediction_analysis = None THEN {}
                               ELSE {"prediction_analysis"})
                              \cup (IF relevant_tickers = None THEN {}
                                    ELSE {"relevant_tickers"}),
                    !.prediction_analysis = prediction_analysis,
                    !.relevant_tickers = relevant_tickers,
                    !.market_research = market_research,
                    !.include_stock_data = include_stock_data,
                    !.include_year_data = include_year_data,
                    !.include_week_data = include_week_data]
       IN service' = [s EXCEPT !.pc = ServiceEntry(s)]
    /\ UNCHANGED outsideService

InvokeFullPredictionAnalysis(use_web_search, include_stock_data, include_year_data, include_week_data) ==
    /\ service.pc = "idle"
    /\ service' = [NoService EXCEPT !.op = FULL_PREDICTION_ANALYSIS,
                      !.pc = "analysis",
                      !.use_web_search = use_web_search,
                      !.include_stock_data = include_stock_data,
                      !.include_year_data = include_year_data,
                      !.include_week_data = include_week_data]
    /\ UNCHANGED outsideService

\* The analysis, by full_prediction_analysis as its step 1 or by a stage
\* operation that was not given one.
ServiceAnalyze(env) ==
    /\ service.pc = "analysis"
    /\ LET analysis_result == AnalyzeEnvelope(env)
           s == ServiceLog(service, "prediction_analysis", env.success,
                           IF env.success THEN <<env.result>> ELSE env.error,
                           {"prediction_text"})
       IN IF ~analysis_result.success
          THEN service' =
                 IF s.op = FULL_PREDICTION_ANALYSIS
                 THEN ServiceReturn(s, PartialOutput(s, analysis_result.error))
                 ELSE ServiceReturn(s, StageFailure(<<"Failed to analyze prediction: ">>
                                                       \o analysis_result.error))
          ELSE LET t == [s EXCEPT !.prediction_analysis = analysis_result.result]
               IN service' = [t EXCEPT !.pc = AfterAnalysis(t)]
    /\ UNCHANGED outsideService

\* get_market_research, by full_prediction_analysis as its step 2 or by
\* find_relevant_tickers when use_web_search is set.
ServiceResearch(env) ==
    /\ service.pc \in {"research", "tickers_research"}
    /\ LET s == ServiceLog(service, "market_research", env.success,
                           IF env.success THEN <<env.content>> ELSE << >>, {})
       IN service' =
            IF service.pc = "research"
            THEN [s EXCEPT !.market_research = IF env.success THEN env.content ELSE @,
                           !.pc = "tickers_research"]
            ELSE [s EXCEPT !.web_research = IF env.success THEN env.content ELSE @,
                           !.pc = "ticker_finder"]
    /\ UNCHANGED outsideService

\* The ticker_finder template call of find_relevant_tickers, and what its
\* caller does with the envelope.
ServiceFindTickers(env) ==
    /\ service.pc = "ticker_finder"
    /\ LET s == ServiceLog(service, "ticker_finder", env.success,
                           IF env.success THEN <<env.result>> ELSE env.error,
                           {"prediction_text", "prediction_analysis"}
                               \cup (IF service.web_research = None THEN {}
                                     ELSE {"web_research"}))
       IN service' =
            CASE s.op = FIND_RELEVANT_TICKERS -> ServiceReturn(s, env)
              [] s.op = CREATE_INVESTMENT_STRATEGY /\ ~env.success ->
                    ServiceReturn(s, StageFailure(<<"Failed to find relevant tickers: ">>
                                                     \o env.error))
              [] s.op = FULL_PREDICTION_ANALYSIS /\ ~env.success ->
                    ServiceReturn(s, PartialOutput(s, env.error))
              [] OTHER ->
                    LET t == [s EXCEPT !.relevant_tickers = env.result]
                    IN [t EXCEPT !.pc = AfterTickers(t)]
    /\ UNCHANGED outsideService

\* _get_yearly_data and _get_weekly_data: a summary, or None when the provider
\* has nothing or raises.
OhlcSummary(timeframe, outcome) == IF outcome = "ok" THEN <<timeframe>> ELSE << >>

\* Variant: a provider exception leaves get_stock_data and reaches the
\* handler of create_investment_strategy.
StockDataForUnguarded(s, ticker, details, yearly, weekly) ==
    LET called == [s EXCEPT !.provider_calls =
                      @ \o <<[name |-> "get_ticker_details", ticker |-> ticker,
                              outcome |-> details]>>
                        \o (IF details = "ok" /\ s.include_year_data
                            THEN <<[name |-> "get_stock_aggregates", ticker |-> ticker,
                                    outcome |-> yearly]>> ELSE << >>)
                        \o (IF details = "ok" /\ s.include_week_data
                            THEN <<[name |-> "get_stock_aggregates", ticker |-> ticker,
                                    outcome |-> weekly]>> ELSE << >>)]
    IN IF details = "raises"
       THEN ServiceReturn(called, StageFailure(<<"Unexpected error: ", "provider">>))
       ELSE IF details = "ok"
       THEN [called EXCEPT !.stock_data =
               Append(@, [ticker |-> ticker,
                          ohlc |-> (IF s.include_year_data
                                    THEN OhlcSummary("1-year daily", yearly) ELSE << >>)
                                   \o (IF s.include_week_data
                                       THEN OhlcSummary("1-week hourly", weekly)
                                       ELSE << >>)])]
       ELSE called

\* One iteration of get_stock_data's loop: the details, then the aggregates
\* that were asked for; an exception anywhere skips what it was fetching.
StockDataFor(s, ticker, details, yearly, weekly) ==
    LET called == [s EXCEPT !.provider_calls =
                      @ \o <<[name |-> "get_ticker_details", ticker |-> ticker,
                              outcome |-> details]>>
                        \o (IF details = "ok" /\ s.include_year_data
                            THEN <<[name |-> "get_stock_aggregates", ticker |-> ticker,
                                    outcome |-> yearly]>> ELSE << >>)
                        \o (IF details = "ok" /\ s.include_week_data
                            THEN <<[name |-> "get_stock_aggregates", ticker |-> ticker,
                                    outcome |-> weekly]>> ELSE << >>)]
    IN IF details = "ok"
       THEN [called EXCEPT !.stock_data =
               Append(@, [ticker |-> ticker,
                          ohlc |-> (IF s.include_year_data
                                    THEN OhlcSummary("1-year daily", yearly) ELSE << >>)
                                   \o (IF s.include_week_data
                                       THEN OhlcSummary("1-week hourly", weekly)
                                       ELSE << >>)])]
       ELSE called

\* The tickers get_stock_data has been through.
Visited(s) == {i \in DOMAIN TickersOf(s.relevant_tickers) :
                  \E k \in DOMAIN s.provider_calls :
                      /\ s.provider_calls[k].name = "get_ticker_details"
                      /\ s.provider_calls[k].ticker = TickersOf(s.relevant_tickers)[i]}

\* get_stock_data takes the next ticker; after the last one the operation
\* goes on to the template.
ServiceGetStockData(details, yearly, weekly) ==
    /\ service.pc = "stock_data"
    /\ LET tickers == TickersOf(service.relevant_tickers)
           i == Cardinality(Visited(service)) + 1
           s == StockDataFor(service, tickers[i], details, yearly, weekly)
       IN service' = IF s.pc = "stock_data" /\ i = Len(tickers)
                     THEN [s EXCEPT !.pc = "strategy"]
                     ELSE s
    /\ UNCHANGED outsideService

\* The investment_strategy template call of create_investment_strategy, and
\* what its caller does with the envelope.
ServiceCreateStrategy(env) ==
    /\ service.pc = "strategy"
    /\ LET s == ServiceLog(service, "investment_strategy", env.success,
                           IF env.success THEN <<env.result>> ELSE env.error,
                           {"prediction_text", "prediction_analysis", "relevant_tickers"}
                               \cup (IF service.market_research = None THEN {}
                                     ELSE {"market_research"})
                               \cup (IF service.stock_data = << >> THEN {}
                                     ELSE {"stock_data"}))
       IN service' =
            CASE s.op = CREATE_INVESTMENT_STRATEGY -> ServiceReturn(s, env)
              [] s.op = FULL_PREDICTION_ANALYSIS /\ ~env.success ->
                    ServiceReturn(s, PartialOutput(s, env.error))
              [] OTHER -> ServiceReturn(s, FullOutput(s, env.result))
    /\ UNCHANGED outsideService

\* -------------------------------------------- PolygonService.get_ticker_news
\* One call of get_ticker_news. An attempt is one pass of its while loop: the
\* direct request (client._get) and, when that raises AttributeError or
\* TypeError, the iterator request (client.list_ticker_news). Requests are
\* logged with the attempt they belong to; "429" stands for an error whose
\* text contains 429, "other" for any other error.
max_retries == 3

DirectOutcomes == {"ok", "AttributeError", "TypeError", "429", "other"}

IteratorOutcomes == {"ok", "429", "other"}

NoNews ==
    [pc |-> "idle", retry_count |-> 0, requests |-> << >>, backoff |-> << >>,
     returned |-> << >>]

GetTickerNews ==
    /\ news.pc = "idle"
    /\ news' = [news EXCEPT !.pc = "attempt"]
    /\ UNCHANGED outsideNews

NewsRequest(n, path, outcome) ==
    [n EXCEPT !.requests = Append(@, [attempt |-> n.retry_count + 1, path |-> path,
                                       outcome |-> outcome])]

\* Variant: the handler compares with <= and retries once more.
HandleNewsErrorOffByOne(n, outcome) ==
    IF outcome = "429" /\ n.retry_count <= max_retries
    THEN [n EXCEPT !.retry_count = @ + 1,
                   !.backoff = Append(@, 2 ^ (n.retry_count + 1)),
                   !.pc = "attempt"]
    ELSE [n EXCEPT !.pc = "returned",
                   !.returned = <<[kind |-> "raised", class |-> "PolygonAPIException"]>>]

\* The outer handler: a 429 with retries left sleeps 2 ** retry_count seconds
\* (plus jitter) and goes round again; anything else is raised.
HandleNewsError(n, outcome) ==
    IF outcome = "429" /\ n.retry_count < max_retries
    THEN [n EXCEPT !.retry_count = @ + 1,
                   !.backoff = Append(@, 2 ^ (n.retry_count + 1)),
                   !.pc = "attempt"]
    ELSE [n EXCEPT !.pc = "returned",
                   !.returned = <<[kind |-> "raised", class |-> "PolygonAPIException"]>>]

\* The direct request of an attempt.
RequestDirect(outcome) ==
    /\ news.pc = "attempt"
    /\ news.retry_count <= max_retries
    /\ LET n == NewsRequest(news, "direct", outcome) IN
       news' = CASE outcome = "ok" ->
                       [n EXCEPT !.pc = "returned",
                                 !.returned = <<[kind |-> "response", from |-> "direct"]>>]
                 [] outcome \in {"AttributeError", "TypeError"} ->
                       [n EXCEPT !.pc = "iterator"]
                 [] OTHER -> HandleNewsError(n, outcome)
    /\ UNCHANGED outsideNews

\* The iterator request an attempt falls back to.
RequestIterator(outcome) ==
    /\ news.pc = "iterator"
    /\ LET n == NewsRequest(news, "iterator", outcome) IN
       news' = IF outcome = "ok"
               THEN [n EXCEPT !.pc = "returned",
                              !.returned = <<[kind |-> "response", from |-> "iterator"]>>]
               ELSE HandleNewsError(n, outcome)
    /\ UNCHANGED outsideNews

\* ------------------------------------------------------ PolygonRateLimiter
\* The middleware's deque of request times, the wall clock in seconds, and
\* the times at which rate-limited requests were handed to call_next during
\* the last time_window seconds. time.sleep blocks the event loop, so one
\* dispatch runs from its arrival to call_next without another in between.
max_requests == 5

time_window == 60

\* "if time_to_wait > 5": the longest wait the middleware sleeps through.
longest_wait == 5

MaxClock == 120

MaxArrivals == 11

\* How far the clock moves between two arrivals: to where the wait left is
\* within longest_wait, and to just short of a whole window.
TickSteps == {time_window - 4, time_window - 2}

NoLimiter ==
    [now |-> 0, request_times |-> << >>, forwarded |-> << >>, arrivals |-> 0,
     outcome |-> "none"]

RECURSIVE PopOld(_, _)
\* "while request_times and current_time - request_times[0] > time_window"
PopOld(request_times, current_time) ==
    IF request_times # << >> /\ current_time - request_times[1] > time_window
    THEN PopOld(Tail(request_times), current_time)
    ELSE request_times

\* The forwarding times less than time_window seconds before now.
Recent(forwarded, now) ==
    SelectSeq(forwarded, LAMBDA f : now - f < time_window)

LimiterTick(d) ==
    /\ limiter.now + d <= MaxClock
    /\ limiter' = [limiter EXCEPT !.now = @ + d,
                                  !.forwarded = Recent(@, limiter.now + d)]
    /\ UNCHANGED outsideLimiter

\* Variant: the time appended is the time the request is let through.
AdmitAtForwardTime(l, request_times, current_time, forward_time) ==
    [l EXCEPT !.request_times = Append(request_times, forward_time),
              !.now = forward_time,
              !.forwarded = Append(Recent(@, forward_time), forward_time),
              !.outcome = IF forward_time > current_time THEN "delayed" ELSE "passed"]

\* "request_times.append(current_time)" and call_next: the arrival time is
\* recorded, whenever the request is let through.
Admit(l, request_times, current_time, forward_time) ==
    [l EXCEPT !.request_times = Append(request_times, current_time),
              !.now = forward_time,
              !.forwarded = Append(Recent(@, forward_time), forward_time),
              !.outcome = IF forward_time > current_time THEN "delayed" ELSE "passed"]

\* dispatch for a request to a rate-limited path.
DispatchLimited ==
    /\ limiter.arrivals < MaxArrivals
    /\ LET current_time == limiter.now
           request_times == PopOld(limiter.request_times, current_time)
           l == [limiter EXCEPT !.arrivals = @ + 1]
       IN IF Len(request_times) >= max_requests
          THEN LET oldest_request == request_times[1]
                   time_to_wait == oldest_request + time_window - current_time
               IN IF time_to_wait > longest_wait
                  THEN limiter' = [l EXCEPT !.request_times = request_times,
                                            !.outcome = "rejected"]
                  ELSE limiter' = Admit(l, request_times, current_time,
                                        current_time + time_to_wait)
          ELSE limiter' = Admit(l, request_times, current_time, current_time)
    /\ UNCHANGED outsideLimiter

\* dispatch for a request to any other path.
DispatchOther ==
    /\ limiter' = [limiter EXCEPT !.outcome = "unlimited"]
    /\ UNCHANGED outsideLimiter

Init ==
    /\ predictions = << >>
    /\ pc = [j \in Jobs |-> "none"]
    /\ options = [j \in Jobs |-> NoOptions]
    /\ locals = [j \in Jobs |-> NoLocals]
    /\ upd = [j \in Jobs |-> << >>]
    /\ calls = [j \in Jobs |-> << >>]
    /\ current = NoTask
    /\ response = NoResponse
    /\ clock = 0
    /\ table = << >>
    /\ listing = NoResponse
    /\ invocation = NoInvocation
    /\ research = NoResearch
    /\ service = NoService
    /\ news = NoNews
    /\ limiter = NoLimiter

Next ==
    \/ \E opts \in OptionInputs : CreatePrediction(opts)
    \/ \E id \in Jobs : GetPredictionStatus(id)
    \/ \E j \in Jobs : RunTask(j)
    \/ \E j \in Jobs : UpdateStatusWrite(j)
    \/ \E j \in Jobs : AnalyzePrediction(j)
    \/ \E j \in Jobs : CallMarketResearch(j)
    \/ \E j \in Jobs : ResearchReturns(j)
    \/ \E j \in Jobs : FindRelevantTickers(j)
    \/ \E j \in Jobs : CreateInvestmentStrategy(j)
    \/ \E j \in Jobs : CompileResults(j)

Spec == Init /\ [][Next]_vars

\* The same program in an environment that may cancel background tasks.
NextCancel ==
    \/ Next
    \/ \E j \in Jobs : CancelTask(j)

SpecCancel == Init /\ [][NextCancel]_vars

\* The job table under any sequence of its operations.
NextTable ==
    \/ TableCreate
    \/ \E id \in Jobs : \E status \in StatusInputs : TableUpdateStatus(id, status)
    \/ \E id \in Jobs : TableGet(id)
    \/ \E limit \in Limits : TableList(limit)
    \/ TableTick

SpecTable == Init /\ [][NextTable]_vars

\* process_template for every template name, variables dict and credential.
NextTemplate ==
    \/ \E template_name \in TemplateNameInputs :
          \E names \in SUBSET VariableNameInputs(template_name) :
             \E has_key \in BOOLEAN : ProcessTemplate(template_name, names, has_key)
    \/ GetTemplate
    \/ ValidateVariables
    \/ FormatPrompt
    \/ GetClient
    \/ SendRequest
    \/ BuildResponse

SpecTemplate == Init /\ [][NextTemplate]_vars

\* get_market_research for every input, credential and reply.
NextResearch ==
    \/ \E industries \in IndustryInputs : \E timeframe \in TimeframeInputs :
          \E has_key \in BOOLEAN : GetMarketResearch(industries, timeframe, has_key)
    \/ SearchMarketInfo
    \/ GetApiKey
    \/ Post
    \/ HandleReply
    \/ ReturnMarketResearch

SpecResearch == Init /\ [][NextResearch]_vars

\* The stage operations for every input and every outcome of what they call.
NextService ==
    \/ \E prediction_analysis \in AnalysisOutputs \cup {None} :
          \E use_web_search \in BOOLEAN :
             InvokeFindRelevantTickers(prediction_analysis, use_web_search)
    \/ \E prediction_analysis \in AnalysisOutputs \cup {None} :
          \E relevant_tickers \in TickerOutputs \cup {None} :
             \E market_research \in ResearchContents \cup {None} :
                \E include_stock_data, include_year_data, include_week_data \in BOOLEAN :
                   InvokeCreateInvestmentStrategy(prediction_analysis, relevant_tickers,
                                                  market_research, include_stock_data,
                                                  include_year_data, include_week_data)
    \/ \E use_web_search, include_stock_data, include_year_data, include_week_data \in BOOLEAN :
          InvokeFullPredictionAnalysis(use_web_search, include_stock_data,
                                       include_year_data, include_week_data)
    \/ \E env \in TemplateEnvelopes(AnalysisOutputs) : ServiceAnalyze(env)
    \/ \E env \in ResearchEnvelopes : ServiceResearch(env)
    \/ \E env \in TemplateEnvelopes(TickerOutputs) : ServiceFindTickers(env)
    \/ \E details, yearly, weekly \in MarketDataOutcomes :
          ServiceGetStockData(details, yearly, weekly)
    \/ \E env \in TemplateEnvelopes(StrategyOutputs) : ServiceCreateStrategy(env)

SpecService == Init /\ [][NextService]_vars

\* The envelope a logged template call returned to its caller.
TemplateEnvelopeOf(call) ==
    IF call.ok
    THEN [success |-> TRUE, result |-> call.out[1], error |-> << >>]
    ELSE [success |-> FALSE, result |-> None, error |-> call.out]

\* The envelope a logged research call returned to its caller.
ResearchEnvelopeOf(call) ==
    [success |-> call.ok, content |-> IF call.ok THEN call.out[1] ELSE None]

\* The synchronous run has made fewer calls than job 1: the outcome of its
\* next call is the one job 1's call at the same place had.
HasOutcome == Len(service.calls) < Len(calls[1])

Outcome == calls[1][Len(service.calls) + 1]

\* One job through _process_prediction, and full_prediction_analysis run with
\* that job's options on the outcomes the job's calls had.
NextCompare ==
    \/ \E opts \in OptionInputs : predictions = << >> /\ CreatePrediction(opts)
    \/ RunTask(1)
    \/ UpdateStatusWrite(1)
    \/ AnalyzePrediction(1)
    \/ CallMarketResearch(1)
    \/ ResearchReturns(1)
    \/ FindRelevantTickers(1)
    \/ CreateInvestmentStrategy(1)
    \/ CompileResults(1)
    \/ /\ 1 \in DOMAIN predictions
       /\ options[1].valid
       /\ InvokeFullPredictionAnalysis(options[1].use_web_search, FALSE, FALSE, FALSE)
    \/ HasOutcome /\ ServiceAnalyze(TemplateEnvelopeOf(Outcome))
    \/ HasOutcome /\ ServiceResearch(ResearchEnvelopeOf(Outcome))
    \/ HasOutcome /\ ServiceFindTickers(TemplateEnvelopeOf(Outcome))
    \/ HasOutcome /\ ServiceCreateStrategy(TemplateEnvelopeOf(Outcome))

SpecCompare == Init /\ [][NextCompare]_vars

\* get_ticker_news for every sequence of provider outcomes.
NextNews ==
    \/ GetTickerNews
    \/ \E outcome \in DirectOutcomes : RequestDirect(outcome)
    \/ \E outcome \in IteratorOutcomes : RequestIterator(outcome)

SpecNews == Init /\ [][NextNews]_vars

\* The middleware under any arrival sequence.
NextLimiter ==
    \/ \E d \in TickSteps : LimiterTick(d)
    \/ DispatchLimited
    \/ DispatchOther

SpecLimiter == Init /\ [][NextLimiter]_vars

\* ------------------------------------------------------------- properties
Created == DOMAIN predictions

Finished(j) == pc[j] = "finished"

\* The task has ended: it returned, or it was cancelled.
Ended(j) == pc[j] \in {"finished", "cancelled"}

\* No _update_status call is part-way through job j's record.
Settled(j) == upd[j] = << >>

Failing(j, name) == {i \in DOMAIN calls[j] : calls[j][i].name = name /\ ~calls[j][i].ok}

\* The task is in, or past, the exception handler.
Handling(j) ==
    \/ pc[j] = "done" /\ (upd[j] # << >> => upd[j][1].status = FAILED)
    \/ pc[j] = "finished"

\* C1: every job starts PENDING and each change of its status moves from a
\* non-terminal status either forward in the order PENDING, ANALYZING,
\* RESEARCHING, FINDING_TICKERS, CREATING_STRATEGY, COMPLETED or to FAILED;
\* the status never moves back to an earlier stage.
C1_StatusOnlyMovesForward ==
    [][\A j \in DOMAIN predictions' :
          IF j \in Created
          THEN LET s == predictions[j].status
                   t == predictions'[j].status
               IN  s # t => /\ s \notin Terminal
                            /\ t = FAILED \/ Rank(t) > Rank(s)
          ELSE predictions'[j].status = PENDING]_vars

C1_Witness ==
    \E j \in Created :
        /\ Finished(j)
        /\ options[j].use_web_search
        /\ predictions[j].status = COMPLETED

\* C2: whenever no _update_status call is part-way through a job's record,
\* its result is non-null exactly when its status is COMPLETED.
C2_ResultIffCompleted ==
    \A j \in Created :
        Settled(j) => (predictions[j].result # NoResult <=> predictions[j].status = COMPLETED)

C2_Witness ==
    \E j, k \in Created :
        /\ Finished(j) /\ predictions[j].status = COMPLETED /\ predictions[j].result # NoResult
        /\ Finished(k) /\ predictions[k].status = FAILED /\ predictions[k].result = NoResult

\* C3: a terminal status is never replaced, and once the terminal
\* _update_status call has returned no step changes the job's status, message,
\* progress or result.
C3_TerminalIsAbsorbing ==
    [][\A j \in Created :
          /\ predictions[j].status \in Terminal =>
                predictions'[j].status = predictions[j].status
          /\ predictions[j].status \in Terminal /\ Settled(j) =>
                predictions'[j] = predictions[j]]_vars

C3_Witness ==
    \E j, k \in Created :
        /\ Finished(j) /\ predictions[j].status \in Terminal
        /\ pc[k] = "strategy" /\ predictions[k].status = CREATING_STRATEGY

\* C4: a background task that has ended (returned, or was cancelled) has left
\* its job in status COMPLETED or FAILED.
C4_EndedTaskLeftJobTerminal ==
    \A j \in Created : Ended(j) => predictions[j].status \in Terminal

\* C5: when the prediction_analysis call returned an error envelope, it is the
\* only external call the job ever makes (no ticker_finder, investment_strategy
\* or research call), the task goes to its handler, and the job ends FAILED with
\* a message that contains the invoker's error text.
C5_AnalysisFailureIsFatal ==
    \A j \in Created :
        Failing(j, "prediction_analysis") # {} =>
            /\ Len(calls[j]) = 1
            /\ Handling(j)
            /\ Finished(j) =>
                  /\ predictions[j].status = FAILED
                  /\ Contains(predictions[j].message, calls[j][1].out)

C5_Witness ==
    \E j \in Created :
        /\ Finished(j)
        /\ Failing(j, "prediction_analysis") # {}
        /\ options[j].use_web_search

\* C6: a job created with use_web_search = true all of whose research calls
\* fail and whose other calls succeed is never FAILED, and when its task has
\* returned it is COMPLETED with market_research null in its result.
C6_ResearchFailureIsNotFatal ==
    \A j \in Created :
        ( /\ options[j].valid /\ options[j].use_web_search
          /\ \A i \in DOMAIN calls[j] :
                calls[j][i].ok <=> calls[j][i].name # "market_research" )
        => /\ predictions[j].status # FAILED
           /\ upd[j] # << >> => upd[j][1].status # FAILED
           /\ Finished(j) =>
                 /\ predictions[j].status = COMPLETED
                 /\ predictions[j].result[1].market_research = None

C6_Witness ==
    \E j \in Created :
        /\ Finished(j)
        /\ predictions[j].status = COMPLETED
        /\ Cardinality(Failing(j, "market_research")) = 2
        /\ Len(calls[j]) = 5

\* C7: a failed ticker_finder call is the job's last external call (the
\* investment_strategy call is never made after it), and after a failed
\* ticker_finder or investment_strategy call the task goes to its handler and
\* the job ends FAILED with progress 100 and the call's error text in its message.
C7_TickerOrStrategyFailureIsFatal ==
    \A j \in Created :
        \A i \in Failing(j, "ticker_finder") \cup Failing(j, "investment_strategy") :
            /\ i = Len(calls[j])
            /\ Handling(j)
            /\ Finished(j) =>
                  /\ predictions[j].status = FAILED
                  /\ predictions[j].progress = 100
                  /\ Contains(predictions[j].message, calls[j][i].out)

C7_Witness ==
    \E j, k \in Created :
        /\ Finished(j) /\ Failing(j, "ticker_finder") # {}
        /\ Finished(k) /\ Failing(k, "investment_strategy") # {}

\* C8: create_prediction returns an identifier of a record in the table, and a
\* get_prediction_status for a job whose task has not yet been given the loop
\* returns a record with status PENDING, progress 0 and no result.
C8_FreshJobIsPending ==
    /\ response.kind = "created" =>
          /\ response.prediction_id \in Created
          /\ pc[response.prediction_id] = "scheduled"
    /\ response.kind = "status" /\ pc[response.prediction_id] = "scheduled" =>
          /\ response.record.status = PENDING
          /\ response.record.progress = 0
          /\ response.record.result = NoResult

C8_Witness ==
    /\ response.kind = "status"
    /\ pc[response.prediction_id] = "scheduled"

\* C9: a job's progress is always within 0..100 and no step decreases it.
C9_ProgressMonotone ==
    [][\A j \in DOMAIN predictions' :
          /\ predictions'[j].progress \in 0..100
          /\ j \in Created => predictions'[j].progress >= predictions[j].progress]_vars

C9_Witness ==
    \E j \in Created :
        /\ Finished(j)
        /\ predictions[j].status = FAILED
        /\ predictions[j].progress = 100
        /\ Failing(j, "ticker_finder") # {}

\* The progress checkpoint of each status.
Checkpoint(status) ==
    CASE status = PENDING -> 0
      [] status = ANALYZING -> 10
      [] status = RESEARCHING -> 30
      [] status = FINDING_TICKERS -> 50
      [] status = CREATING_STRATEGY -> 70
      [] status = COMPLETED -> 100
      [] status = FAILED -> 100

\* The message that is written together with each status.
MessageBelongsTo(status, message) ==
    CASE status = PENDING -> message = <<"Prediction queued for processing">>
      [] status = ANALYZING -> message = <<"Analyzing prediction text">>
      [] status = RESEARCHING -> message = <<"Gathering market research">>
      [] status = FINDING_TICKERS -> message = <<"Finding relevant tickers">>
      [] status = CREATING_STRATEGY -> message = <<"Creating investment strategy">>
      [] status = COMPLETED -> message = <<"Prediction analysis completed">>
      [] status = FAILED -> Len(message) > 1 /\ message[1] = "Prediction processing failed: "

\* C10: every record a poller is given has the progress checkpoint and the
\* message of its status: no read falls between the field writes of one
\* _update_status call.
C10_PollerSeesWholeUpdates ==
    response.kind = "status" =>
        /\ response.record.progress = Checkpoint(response.record.status)
        /\ MessageBelongsTo(response.record.status, response.record.message)

C10_Witness ==
    /\ response.kind = "status"
    /\ response.record.status = RESEARCHING
    /\ \E k \in Created : pc[k] = "await_tickers_research"

\* The successful calls job j has made to the named template or invoker.
Succeeded(j, name) == {i \in DOMAIN calls[j] : calls[j][i].name = name /\ calls[j][i].ok}

\* C11: a job created without web search whose prediction_analysis,
\* ticker_finder and investment_strategy calls all succeeded makes exactly those
\* three calls, is never FAILED, and when its task has returned it is COMPLETED
\* with progress 100 and a result whose analysis, relevant_tickers and
\* investment_strategy are the three calls' outputs and whose market_research
\* is null.
C11_NoWebSuccessCompletes ==
    \A j \in Created :
        ( /\ options[j].valid /\ ~options[j].use_web_search
          /\ Succeeded(j, "prediction_analysis") # {}
          /\ Succeeded(j, "ticker_finder") # {}
          /\ Succeeded(j, "investment_strategy") # {} )
        => /\ Len(calls[j]) = 3
           /\ predictions[j].status # FAILED
           /\ Finished(j) =>
                 /\ predictions[j].status = COMPLETED
                 /\ predictions[j].progress = 100
                 /\ predictions[j].result # NoResult
                 /\ predictions[j].result[1].analysis = calls[j][1].out[1]
                 /\ predictions[j].result[1].relevant_tickers = calls[j][2].out[1]
                 /\ predictions[j].result[1].investment_strategy = calls[j][3].out[1]
                 /\ predictions[j].result[1].market_research = None

C11_Witness ==
    \E j \in Created :
        /\ Finished(j)
        /\ options[j].valid /\ ~options[j].use_web_search
        /\ Succeeded(j, "investment_strategy") # {}
        /\ predictions[j].status = COMPLETED

\* The stage that the specification assigns each external call to.
StageOf(name) ==
    CASE name = "prediction_analysis" -> ANALYZING
      [] name = "market_research" -> RESEARCHING
      [] name = "ticker_finder" -> FINDING_TICKERS
      [] name = "investment_strategy" -> CREATING_STRATEGY

\* C13: every external call of a job is issued while the job's recorded status
\* is the stage the call belongs to: prediction_analysis while ANALYZING, every
\* Research Invoker call while RESEARCHING, ticker_finder while FINDING_TICKERS,
\* investment_strategy while CREATING_STRATEGY.
C13_CallsBelongToRecordedStage ==
    \A j \in Created :
        \A i \in DOMAIN calls[j] : calls[j][i].at = StageOf(calls[j][i].name)

\* C14: once the ticker_finder call of a job has been made, the research text
\* it was given (web_research) is present exactly when the RESEARCHING stage
\* produced research (market_research), and it is that research.
C14_TickerFinderGetsStageResearch ==
    \A j \in Created :
        (\E i \in DOMAIN calls[j] : calls[j][i].name = "ticker_finder")
        => locals[j].web_research = locals[j].market_research

\* C15: every step in which a job issues a request to the Structured-Output
\* Invoker or the Research Invoker that gets an answer from the provider is a
\* suspension point: the task gives up the event loop while the request is
\* outstanding.
C15_EveryInvokerCallSuspends ==
    [][\A j \in Jobs :
          ( /\ Len(calls'[j]) > Len(calls[j])
            /\ calls'[j][Len(calls'[j])].ok )
          => current' = NoTask]_vars

C18_CreateReturnsBeforeAnyStage ==
    response.kind = "created" =>
        LET id == response.prediction_id IN
        /\ calls[id] = << >>
        /\ upd[id] = << >>
        /\ pc[id] = "scheduled"
        /\ predictions[id].status = PENDING

C18_Witness ==
    /\ response.kind = "created"
    /\ \E k \in Created \ {response.prediction_id} : pc[k] = "await_research"

\* C12: a listing requested with limit, of a table of n records, holds
\* min(limit, n) records of the table, no record twice, in descending order
\* of created_at, and no record left out was created later than one it
\* holds, whatever the records' statuses and update times are.
C12_ListIsNewestFirstTruncated ==
    listing.kind = "list" =>
        LET out == listing.records
            shown == {out[i].prediction_id : i \in DOMAIN out}
        IN  /\ Len(out) = Min(listing.limit, Len(table))
            /\ \A i \in DOMAIN out : \E k \in DOMAIN table : out[i] = table[k]
            /\ \A i, k \in DOMAIN out : i # k => out[i].prediction_id # out[k].prediction_id
            /\ \A i, k \in DOMAIN out : i < k => out[i].created_at >= out[k].created_at
            /\ \A k \in DOMAIN table :
                  table[k].prediction_id \notin shown =>
                     \A i \in DOMAIN out : table[k].created_at <= out[i].created_at

C12_Witness ==
    /\ listing.kind = "list"
    /\ Len(table) = MaxJobs
    /\ listing.limit = MaxJobs - 1
    /\ table[1].created_at < table[MaxJobs].created_at
    /\ table[1].updated_at > table[MaxJobs].updated_at
    /\ table[1].status = ANALYZING /\ table[MaxJobs].status = COMPLETED
    /\ listing.records[1] = table[MaxJobs]

\* C17: every identifier create_prediction handed out has exactly one record
\* in the table, stored under that identifier, and no create, status update,
\* get or list operation removes a record or changes a record's prediction_id
\* or created_at.
C17_RecordsKeepIdentity ==
    [][/\ \A id \in 1..Len(table') : Cardinality(Position(table', id)) = 1
       /\ \A i \in DOMAIN table :
             /\ i \in DOMAIN table'
             /\ table'[i].prediction_id = table[i].prediction_id
             /\ table'[i].created_at = table[i].created_at]_vars

C17_Witness ==
    /\ listing.kind = "list"
    /\ Len(table) = MaxJobs
    /\ \A i \in DOMAIN table :
          table[i].status \in Terminal /\ table[i].updated_at > table[i].created_at

\* The invocation failed before the request: the template is not registered,
\* a required variable was not given, a placeholder has no value after the
\* defaults were filled in, or no credential is configured.
FailsBeforeRequest(inv) ==
    \/ inv.template_name \notin DOMAIN TEMPLATES
    \/ LET template == TEMPLATES[inv.template_name] IN
          \/ ~(template.required_vars \subseteq inv.given)
          \/ ~(template.placeholders \subseteq inv.given \cup template.optional_vars)
    \/ ~inv.has_key

\* C19: process_template never ends by raising; it returns an envelope that
\* either has success = false, an error that is not null and a null result, or
\* has success = true and a result that is not null; an invocation that failed
\* before the request, that got no parsed object or whose request raised
\* returns the former; and at no point has an invocation sent more than one
\* request to the provider.
C19_AlwaysAnEnvelopeOneRequest ==
    /\ invocation.requests <= 1
    /\ invocation.returned.kind # "raised"
    /\ invocation.pc = "returned" <=> invocation.returned.kind = "envelope"
    /\ invocation.pc = "returned" =>
          LET r == invocation.returned IN
          /\ IF r.success
             THEN r.result # None /\ invocation.requests = 1
             ELSE r.error # None /\ r.result = None
          /\ FailsBeforeRequest(invocation) => ~r.success
          /\ invocation.completion = None => ~r.success

C19_Witness ==
    /\ invocation.pc = "returned"
    /\ invocation.template_name = "ticker_finder"
    /\ invocation.has_key
    /\ invocation.requests = 1
    /\ ~invocation.returned.success
    /\ invocation.returned.error = <<"'NoneType' object has no attribute 'dict'">>

\* C20: an invocation whose template lookup, variable validation or prompt
\* rendering fails, or that finds no credential, never sends a request to the
\* provider, and what it returns is an error envelope.
C20_NoRequestAfterEarlyFailure ==
    FailsBeforeRequest(invocation) /\ invocation.pc # "idle" =>
        /\ invocation.requests = 0
        /\ invocation.pc \notin {"request", "parse"}
        /\ invocation.pc = "returned" =>
              /\ invocation.returned.kind = "envelope"
              /\ ~invocation.returned.success

C20_Witness ==
    /\ invocation.pc = "returned"
    /\ invocation.template_name = "investment_strategy"
    /\ invocation.given = TEMPLATES["investment_strategy"].required_vars
    /\ ~invocation.has_key
    /\ invocation.requests = 0
    /\ ~invocation.returned.success

\* The invocation has not yet got past validate_variables.
BeforeValidation(inv) == inv.pc \in {"idle", "get_template", "validate_variables"}

\* C21: every placeholder of every registered template is one of its required
\* or optional variables; an invocation of a registered template that lacks a
\* required variable ends in validate_variables with an error envelope and no
\* prompt; otherwise, once validated, the variables are the given ones with
\* their supplied values plus every absent optional one with its default, and
\* the rendered prompt has a value for every placeholder, the supplied one
\* where one was given.
C21_ValidationFillsDefaults ==
    /\ \A name \in DOMAIN TEMPLATES :
          TEMPLATES[name].placeholders \subseteq
              TEMPLATES[name].required_vars \cup TEMPLATES[name].optional_vars
    /\ invocation.template_name \in DOMAIN TEMPLATES =>
          LET inv == invocation
              template == TEMPLATES[inv.template_name]
              expected == [v \in inv.given \cup template.optional_vars |->
                              IF v \in inv.given THEN "supplied" ELSE "default"]
          IN  IF ~(template.required_vars \subseteq inv.given)
              THEN /\ BeforeValidation(inv) \/ inv.pc = "returned"
                   /\ inv.prompt = << >>
                   /\ inv.pc = "returned" =>
                         /\ ~inv.returned.success
                         /\ inv.returned.error = <<"Missing required variables: ">>
              ELSE /\ ~BeforeValidation(inv) => inv.variables = expected
                   /\ ~BeforeValidation(inv) /\ inv.pc # "format_prompt" =>
                         /\ DOMAIN inv.prompt = template.placeholders
                         /\ \A p \in template.placeholders : inv.prompt[p] = expected[p]

C21_Witness ==
    /\ invocation.pc = "returned"
    /\ invocation.template_name = "ticker_finder"
    /\ invocation.given = {"prediction_text", "prediction_analysis", "web_research"}
    /\ invocation.returned.success
    /\ invocation.prompt["web_research"] = "supplied"
    /\ invocation.prompt["industry_list"] = "default"

\* C22: when process_template has returned, the variables mapping the caller
\* passed holds what the caller put into it and nothing else.
C22_CallerMappingUnchanged ==
    invocation.pc = "returned" => invocation.variables = Supplied(invocation.given)

\* The calls job j has made to the Research Invoker.
ResearchCalls(j) == {i \in DOMAIN calls[j] : calls[j][i].name = "market_research"}

C23_SearchAlwaysAnEnvelope ==
    /\ research.requests <= 1
    /\ ~research.has_key => research.requests = 0
    /\ research.search_returned.kind # "raised"
    /\ research.search_returned.kind = "envelope" /\ research.reply.kind # "ok" =>
          /\ ~research.search_returned.success
          /\ research.search_returned.error # << >>

\* The requests get_stock_data made for a ticker, by name and outcome.
ProviderCalls(s, name, ticker, outcome) ==
    {k \in DOMAIN s.provider_calls :
        /\ s.provider_calls[k].name = name
        /\ s.provider_calls[k].ticker = ticker
        /\ s.provider_calls[k].outcome = outcome}

EnrichmentEntries(s, ticker) == {k \in DOMAIN s.stock_data : s.stock_data[k].ticker = ticker}

\* C24: once create_investment_strategy has started its enrichment, no outcome
\* of the market-data provider ends the operation: it stays on its way to the
\* investment_strategy call, a ticker whose get_ticker_details raised has no
\* entry in the stock data, an entry holds one summary per get_stock_aggregates
\* request that succeeded (a raising one adds nothing), and when the operation
\* has returned its last call is investment_strategy, given the stock data
\* exactly when there is some, and the outcome is that call's outcome.
C24_EnrichmentNeverAborts ==
    LET s == service IN
    (s.op \in {CREATE_INVESTMENT_STRATEGY, FULL_PREDICTION_ANALYSIS}
        /\ s.provider_calls # << >>) =>
       /\ s.pc \in {"stock_data", "strategy", "returned"}
       /\ \A k \in DOMAIN s.provider_calls :
             LET ticker == s.provider_calls[k].ticker IN
             /\ ProviderCalls(s, "get_ticker_details", ticker, "raises") # {}
                   => EnrichmentEntries(s, ticker) = {}
             /\ \A e \in EnrichmentEntries(s, ticker) :
                   Len(s.stock_data[e].ohlc)
                       = Cardinality(ProviderCalls(s, "get_stock_aggregates", ticker, "ok"))
       /\ s.pc = "returned" =>
             /\ s.calls # << >>
             /\ LET last == s.calls[Len(s.calls)] IN
                   /\ last.name = "investment_strategy"
                   /\ ("stock_data" \in last.variables) <=> (s.stock_data # << >>)
                   /\ s.returned[1].success = last.ok
                   /\ s.op = CREATE_INVESTMENT_STRATEGY =>
                         s.returned[1] = [success |-> last.ok,
                                          result |-> IF last.ok THEN last.out[1] ELSE None,
                                          error |-> IF last.ok THEN << >> ELSE last.out]

\* A strategy was returned although the details of one ticker and the
\* aggregates of the other raised.
C24_Witness ==
    /\ service.op = CREATE_INVESTMENT_STRATEGY
    /\ service.pc = "returned"
    /\ service.returned[1].success
    /\ \E k \in DOMAIN service.provider_calls :
          /\ service.provider_calls[k].name = "get_ticker_details"
          /\ service.provider_calls[k].outcome = "raises"
    /\ \E k \in DOMAIN service.provider_calls :
          /\ service.provider_calls[k].name = "get_stock_aggregates"
          /\ service.provider_calls[k].outcome = "raises"
    /\ Len(service.stock_data) = 1

ServiceCallNames(s) == [k \in DOMAIN s.calls |-> s.calls[k].name]

\* C26: find_relevant_tickers given an analysis makes no prediction_analysis
\* call; create_investment_strategy given an analysis and tickers makes
\* exactly one call, investment_strategy; an operation not given the analysis
\* makes the prediction_analysis call first, create_investment_strategy not
\* given the tickers makes the ticker_finder call before investment_strategy,
\* and when such a call fails it is the last call and the operation returns a
\* failure envelope that carries its error and no result.
C26_StagesReusePrecomputedOutput ==
    LET s == service
        names == ServiceCallNames(s)
        FailureReturned(k) ==
            /\ k = Len(s.calls)
            /\ s.pc = "returned"
            /\ ~s.returned[1].success
            /\ s.returned[1].result = None
            /\ Contains(s.returned[1].error, s.calls[k].out)
    IN s.op \in {FIND_RELEVANT_TICKERS, CREATE_INVESTMENT_STRATEGY} =>
       /\ (s.op = FIND_RELEVANT_TICKERS /\ "prediction_analysis" \in s.given)
             => \A k \in DOMAIN names : names[k] # "prediction_analysis"
       /\ (s.op = CREATE_INVESTMENT_STRATEGY /\ s.pc = "returned"
              /\ s.given = {"prediction_analysis", "relevant_tickers"})
             => names = <<"investment_strategy">>
       /\ ("prediction_analysis" \notin s.given /\ s.calls # << >>)
             => /\ names[1] = "prediction_analysis"
                /\ ~s.calls[1].ok => FailureReturned(1)
       /\ (s.op = CREATE_INVESTMENT_STRATEGY /\ "relevant_tickers" \notin s.given)
             => \A k \in DOMAIN names :
                   /\ names[k] = "investment_strategy"
                         => \E i \in 1..(k - 1) : names[i] = "ticker_finder" /\ s.calls[i].ok
                   /\ (names[k] = "ticker_finder" /\ ~s.calls[k].ok) => FailureReturned(k)

\* create_investment_strategy was given both outputs and returned a strategy
\* after a single call.
C26_Witness ==
    /\ service.op = CREATE_INVESTMENT_STRATEGY
    /\ service.pc = "returned"
    /\ service.given = {"prediction_analysis", "relevant_tickers"}
    /\ service.returned[1].success
    /\ Len(service.calls) = 1

\* C28: full_prediction_analysis returns an envelope for every outcome of its
\* calls. It succeeds exactly when no template call failed; a failed template
\* call is the last call made and the envelope carries that stage's error; the
\* analysis, market research, tickers and strategy in the envelope are the
\* outputs of the calls that succeeded and None for the others; a failed
\* research call leaves market_research None and ticker_finder is still called.
C28_FullAnalysisFailsFast ==
    LET s == service IN
    (s.op = FULL_PREDICTION_ANALYSIS /\ s.pc = "returned") =>
       LET r == s.returned[1]
           c == s.calls
           last == c[Len(c)]
           failing == {k \in DOMAIN c : c[k].name # "market_research" /\ ~c[k].ok}
           OutputOf(name) ==
               IF \E k \in DOMAIN c : c[k].name = name /\ c[k].ok
               THEN c[CHOOSE k \in DOMAIN c : c[k].name = name /\ c[k].ok].out[1]
               ELSE None
       IN /\ r.success <=> failing = {}
          /\ r.success => last.name = "investment_strategy"
          /\ failing # {} =>
                /\ failing = {Len(c)}
                /\ r.error = IF last.name = "prediction_analysis"
                             THEN <<"Failed to analyze prediction: ">> \o last.out
                             ELSE last.out
          /\ r.analysis = OutputOf("prediction_analysis")
          /\ r.market_research =
                IF s.use_web_search /\ Len(c) >= 2 /\ c[2].ok THEN c[2].out[1] ELSE None
          /\ r.relevant_tickers = OutputOf("ticker_finder")
          /\ r.investment_strategy = OutputOf("investment_strategy")
          /\ (s.use_web_search /\ c[1].ok) =>
                /\ Len(c) >= 4
                /\ c[2].name = "market_research"
                /\ c[4].name = "ticker_finder"

\* The research failed, the pipeline went on, and ticker finding failed: the
\* envelope holds the analysis and nothing else.
C28_Witness ==
    /\ service.op = FULL_PREDICTION_ANALYSIS
    /\ service.pc = "returned"
    /\ service.use_web_search
    /\ Len(service.calls) = 4
    /\ ~service.calls[2].ok
    /\ ~service.calls[4].ok
    /\ service.returned[1].analysis # None
    /\ service.returned[1].market_research = None

\* C25: job 1 and full_prediction_analysis run with the job's options on the
\* outcomes of the job's calls. The synchronous run's calls are the job's
\* calls, name by name in the same order; it never needs a call the finished
\* job did not make, and when it has returned the job has made no call beyond
\* its last one; once both have ended the job is COMPLETED exactly when the
\* return value has success=true, the job's result then being that value, and
\* FAILED exactly when it has success=false, the job's message then carrying
\* the returned error.
C25_JobPipelineIsTheSynchronousPipeline ==
    LET s == service
        n == Len(s.calls)
    IN s.op = FULL_PREDICTION_ANALYSIS =>
       /\ n <= Len(calls[1])
       /\ \A k \in 1..n : s.calls[k].name = calls[1][k].name
       /\ (Finished(1) /\ s.pc # "returned") => n < Len(calls[1])
       /\ s.pc = "returned" => n = Len(calls[1])
       /\ (Finished(1) /\ s.pc = "returned") =>
             LET r == s.returned[1] IN
             /\ predictions[1].status = COMPLETED <=> r.success
             /\ predictions[1].status = FAILED <=> ~r.success
             /\ r.success => predictions[1].result = <<r>>
             /\ ~r.success => /\ predictions[1].result = NoResult
                              /\ Contains(predictions[1].message, r.error)

\* Both ended after the five calls of a run with web search, the job COMPLETED.
C25_Witness ==
    /\ service.op = FULL_PREDICTION_ANALYSIS
    /\ service.pc = "returned"
    /\ Finished(1)
    /\ service.use_web_search
    /\ Len(service.calls) = 5
    /\ predictions[1].status = COMPLETED
    /\ service.returned[1].success

\* The requests of get_ticker_news that ended in an error the handler saw.
NewsHandled ==
    {k \in DOMAIN news.requests :
        \/ news.requests[k].outcome \in {"429", "other"}
        \/ news.requests[k].path = "iterator" /\ news.requests[k].outcome # "ok"}

NewsLast(k) == k = Len(news.requests)

NewsRaised == news.pc = "returned" /\ news.returned[1].kind = "raised"

\* What get_ticker_news does about 429s and successes: at most 4 attempts of
\* at most two requests each, a new attempt only after a 429, a raise on the
\* 429 of the 4th attempt, and a successful request is the last one and its
\* response is returned.
NewsRetryBounded ==
    /\ news.retry_count <= max_retries
    /\ Len(news.requests) <= 2 * (max_retries + 1)
    /\ \A k \in DOMAIN news.requests :
          LET r == news.requests[k] IN
          /\ r.attempt <= max_retries + 1
          /\ (k > 1 /\ r.attempt # news.requests[k - 1].attempt)
                => /\ r.attempt = news.requests[k - 1].attempt + 1
                   /\ news.requests[k - 1].outcome = "429"
          /\ (r.outcome = "429" /\ r.attempt = max_retries + 1)
                => NewsLast(k) /\ NewsRaised
          /\ (r.outcome = "429" /\ r.attempt <= max_retries)
                => news.pc = "attempt" \/ ~NewsLast(k)
          /\ r.outcome = "ok"
                => NewsLast(k) /\ news.pc = "returned" /\ news.returned[1].kind = "response"

\* C30 (as stated): the retry bounds hold and every request that fails with
\* an error not containing 429 is the last request, PolygonAPIException
\* being raised.
C30_RaisesOnAnyOtherError ==
    /\ NewsRetryBounded
    /\ \A k \in DOMAIN news.requests :
          news.requests[k].outcome \notin {"ok", "429"} => NewsLast(k) /\ NewsRaised

\* C30 (amended): the retry bounds hold; every error without 429 that
\* reaches the handler is the last request, PolygonAPIException being raised;
\* an AttributeError or TypeError of the direct request is not raised but
\* followed by the iterator request of the same attempt.
C30_RaisesOnErrorsReachingTheHandler ==
    /\ NewsRetryBounded
    /\ \A k \in NewsHandled :
          news.requests[k].outcome # "429" => NewsLast(k) /\ NewsRaised
    /\ \A k \in DOMAIN news.requests :
          (news.requests[k].path = "direct"
              /\ news.requests[k].outcome \in {"AttributeError", "TypeError"})
             => IF NewsLast(k)
                THEN news.pc = "iterator"
                ELSE /\ news.requests[k + 1].path = "iterator"
                     /\ news.requests[k + 1].attempt = news.requests[k].attempt

\* The 4th attempt fell back to the iterator request, which met a 429, and
\* the exception was raised after three retries.
C30_Witness ==
    /\ NewsRaised
    /\ news.retry_count = max_retries
    /\ news.requests[Len(news.requests)] =
          [attempt |-> max_retries + 1, path |-> "iterator", outcome |-> "429"]
    /\ news.backoff = <<2, 4, 8>>

\* C29: at no time have more than max_requests rate-limited requests been
\* handed to call_next during the last time_window seconds.
C29_AtMostFivePerWindow ==
    Len(limiter.forwarded) <= max_requests

====
